---- MODULE Spec2Model ----
(***************************************************************************)
(* ddsearch: incremental indexing (indexer.js), collection management      *)
(* (collections.js), the embedding pass (cli.js "embed") and vector search *)
(* (search.js) over the SQLite schema of db.js.                            *)
(*                                                                         *)
(* The store is one record, db: the committed database.  A reindex pass    *)
(* over one collection runs in one SQLite transaction (db.transaction,     *)
(* indexer.js 137-161), so other processes see it commit or roll back as a *)
(* whole: a pass is one action, computed statement by statement by the     *)
(* operators below.  better-sqlite3 builds SQLite with foreign keys        *)
(* enforced, so the ON DELETE CASCADE clauses of db.js act on every DELETE.*)
(***************************************************************************)
EXTENDS Integers, Sequences, FiniteSets, TLC

\* ------------------------------------------------------------------ bounds
\* Ids the AUTOINCREMENT counters may hand out, and the largest --batch-size.
MaxDocId == 2
MaxChunkId == 3
MaxBatch == 2
\* Chunk ids of the stores a vector search is run against.
SearchChunks == 3
\* Scores are fixed-point numbers with this many steps per unit of similarity.
Scale == 10
\* Chunk ids of the stores a hybrid search is run against.
HybridChunks == 2
\* The most lines of a document given to the chunker.
MaxLines == 4

\* Collection names.  Every collection of the model is added over the same
\* base path; collection A with a mask that matches every path, collection B
\* with a mask that matches p1 alone.
Names == {"A", "B"}
\* The paths of the base path, in the order fast-glob lists them.
PathSeq == <<"p1", "p2">>
Paths == {PathSeq[i] : i \in 1..Len(PathSeq)}
GlobMask(name) == IF name = "A" THEN Paths ELSE {"p1"}
\* What a path holds on disk: nothing, a text (t1 chunks into one chunk, t2
\* into two), a binary file, or a file readFileSync cannot read.
Texts == {"t1", "t2"}
FileStates == {"absent", "bin", "locked"} \cup Texts
\* What indexFile meets at a binary file whose DELETE of the prior document
\* throws (the store is busy with another writer, the disk is full).
BinRefused == "bin_refused"

VARIABLES
  db,        \* the committed store
  disk,      \* disk[p]: what path p holds
  synced,    \* synced[n]: a pass over collection n has committed, none of its
             \* statements having thrown, and no file has changed on disk
             \* since that pass discovered its files
  em,        \* the embed command (cli.js 113-149)
  ev         \* what the command that just ran reports (its inputs and what
             \* it returned), until the report is read

vars == <<db, disk, synced, em, ev>>

\* ------------------------------------------------------------- the schema
EmptyDb ==
  [collections |-> {}, docs |-> {}, chunks |-> {}, embeddings |-> {},
   nextDoc |-> 1, nextChunk |-> 1]

\* hashContent: sha256 of the content, taken as collision free.
hashContent(content) == <<"sha256", content>>

\* chunkFile: the chunks of a content, chunkIndex counting from 0.
ChunkCount(content) == IF content = "t2" THEN 2 ELSE 1
chunkFile(content) ==
  [i \in 1..ChunkCount(content) |-> [chunkIndex |-> i - 1, text |-> <<content, i - 1>>]]

\* The provider's vector for a text (the model is deterministic).
EmbedText(text) ==
  IF text[1] = "t1" THEN <<1, 0>> ELSE IF text[2] = 0 THEN <<1, 1>> ELSE <<0, 1>>

ChunkIdsOf(s, docIds) == {c.id : c \in {x \in s.chunks : x.doc \in docIds}}

\* Mutant: foreign keys are not enforced, embeddings outlive their chunks.
CascadeEmbeddings_Off(s, chunkIds) == s.embeddings

\* FOREIGN KEY (chunk_id) REFERENCES chunks(id) ON DELETE CASCADE
CascadeEmbeddings(s, chunkIds) == {e \in s.embeddings : e.chunk \notin chunkIds}

\* Mutant: the chunks of a deleted document stay.
CascadeChunks_Off(s, docIds) == s.chunks

\* FOREIGN KEY (file_metadata_id) REFERENCES file_metadata(id) ON DELETE CASCADE
CascadeChunks(s, docIds) == {c \in s.chunks : c.doc \notin docIds}

\* DELETE FROM file_metadata WHERE id = ?  (for a set of ids), with its cascade
DeleteDocs(s, docIds) ==
  [s EXCEPT !.docs = {d \in s.docs : d.id \notin docIds},
            !.chunks = CascadeChunks(s, docIds),
            !.embeddings = CascadeEmbeddings(s, ChunkIdsOf(s, docIds))]

\* SELECT id, file_hash FROM file_metadata WHERE collection_id = ? AND file_path = ?
Existing(s, coll, path) == {d \in s.docs : d.coll = coll /\ d.path = path}

\* INSERT INTO file_metadata, then one INSERT INTO chunks per chunk
InsertDoc(s, coll, path, content) ==
  LET cs == chunkFile(content)
      id == s.nextDoc
  IN [s EXCEPT
        !.docs = @ \cup {[id |-> id, coll |-> coll, path |-> path,
                          hash |-> hashContent(content)]},
        !.chunks = @ \cup {[id |-> s.nextChunk + i - 1, doc |-> id,
                            idx |-> cs[i].chunkIndex, text |-> cs[i].text]
                           : i \in 1..Len(cs)},
        !.nextDoc = id + 1,
        !.nextChunk = @ + Len(cs)]

\* ---------------------------------------------------------------- indexFile
\* Mutant: the recorded hash is compared with the content, not its hash.
Unchanged_RawContent(s, coll, path, st, full) ==
  /\ \E d \in Existing(s, coll, path) : d.hash = st
  /\ ~full

\* Mutant: a force-full pass skips the files whose hash is the recorded one.
Unchanged_IgnoresFull(s, coll, path, st, full) ==
  \E d \in Existing(s, coll, path) : d.hash = hashContent(st)

\* line 67: existing && existing.file_hash === contentHash && !forceReindex
Unchanged(s, coll, path, st, full) ==
  /\ \E d \in Existing(s, coll, path) : d.hash = hashContent(st)
  /\ ~full

\* indexFile(collectionId, filePath, forceReindex) on store s, the file
\* holding st when it is read.  Returns the store and the result.  The
\* DELETE of the binary branch (lines 53-55) runs inside the try block of
\* lines 50-63: when it throws, the catch returns read_error.
indexFile(s, coll, path, st, full) ==
  LET exIds == {d.id : d \in Existing(s, coll, path)}
      skip(reason) == [db |-> s, indexed |-> FALSE, reason |-> reason, chunks |-> 0]
  IN IF st = "absent" THEN skip("not_found")
     ELSE IF st = "locked" THEN skip("read_error")
     ELSE IF st = BinRefused THEN skip("read_error")
     ELSE IF st = "bin" THEN
       [db |-> DeleteDocs(s, exIds), indexed |-> FALSE, reason |-> "binary",
        chunks |-> 0]
     ELSE IF Unchanged(s, coll, path, st, full) THEN skip("unchanged")
     ELSE [db |-> InsertDoc(DeleteDocs(s, exIds), coll, path, st),
           indexed |-> TRUE, reason |-> "indexed", chunks |-> ChunkCount(st)]

\* The file read as st has the fingerprint the store records for it.
FingerprintSame(s, coll, path, st) ==
  /\ st \in Texts
  /\ \E d \in Existing(s, coll, path) : d.hash = hashContent(st)

\* ------------------------------------------------------------ indexCollections
\* discoverFiles: the files on disk d that the collection's mask matches
discoverFiles(d, name) ==
  SelectSeq(PathSeq, LAMBDA p : d[p] # "absent" /\ p \in GlobMask(name))

FileSet(files) == {files[i] : i \in 1..Len(files)}

\* Mutant: the removal loop forgets the fileSet test.
Unmatched_All(s, coll, files) == {d \in s.docs : d.coll = coll}

\* The documents of the collection whose path is no longer matched
\* (indexer.js 139-148).
Unmatched(s, coll, files) ==
  {d \in s.docs : d.coll = coll /\ d.path \notin FileSet(files)}

\* The removal loop, indexer.js 139-148: the transaction's state after it.
RemoveLoop(s, coll, files) ==
  LET gone == Unmatched(s, coll, files) IN
  [db |-> DeleteDocs(s, {d.id : d \in gone}), removed |-> Cardinality(gone),
   indexed |-> 0, skipped |-> 0, chunks |-> 0, same |-> {}]

\* One iteration of the loop over files, indexer.js 150-158.  same collects
\* the files read with the fingerprint that the store s0, as it was before
\* the pass, records for them.
FileLoopStep(acc, s0, coll, path, st, full) ==
  LET r == indexFile(acc.db, coll, path, st, full) IN
  [acc EXCEPT !.db = r.db,
              !.indexed = IF r.indexed THEN @ + 1 ELSE @,
              !.chunks = IF r.indexed THEN @ + r.chunks ELSE @,
              !.skipped = IF r.indexed THEN @ ELSE @ + 1,
              !.same = IF FingerprintSame(s0, coll, path, st)
                       THEN @ \cup {path} ELSE @]

\* The transaction's function after the removal loop and the first k files.
\* read[p] is what indexFile finds at p.
RECURSIVE FileLoop(_, _, _, _, _, _)
FileLoop(s, coll, files, read, full, k) ==
  IF k = 0 THEN RemoveLoop(s, coll, files)
  ELSE FileLoopStep(FileLoop(s, coll, files, read, full, k - 1),
                    s, coll, files[k], read[files[k]], full)

\* COMMIT: the transaction's writes become the store.
Commit(committed, written) == written

\* Mutant: the statements run outside a transaction, what was written stays.
Rollback_None(committed, written) == written

\* ROLLBACK: better-sqlite3 rolls the transaction back when its function throws.
Rollback(committed, written) == committed

\* --------------------------------------------------------------- the state
EmIdle == [pc |-> "idle"]
None == [op |-> "none"]
Quiet == ev = None

Init ==
  /\ db = EmptyDb
  /\ disk = [p \in Paths |-> "absent"]
  /\ synced = [n \in Names |-> FALSE]
  /\ em = EmIdle
  /\ ev = None

\* The file system changes under the program at any time.
DiskEdit(p, st) ==
  /\ Quiet
  /\ disk[p] # st
  /\ disk' = [disk EXCEPT ![p] = st]
  /\ synced' = [n \in Names |-> FALSE]
  /\ UNCHANGED <<db, em, ev>>

\* ------------------------------------------------------------ collections.js
addCollection(s, name) ==
  IF name \in s.collections
  THEN [db |-> s, result |-> "exists"]
  ELSE [db |-> [s EXCEPT !.collections = @ \cup {name}], result |-> "added"]

\* Mutant: the cascade takes the documents of every collection.
CascadeDocs_Every(s, name) == {d.id : d \in s.docs}

\* DELETE FROM collections WHERE id = ?: file_metadata(collection_id) cascades
CascadeDocs(s, name) == {d.id : d \in {x \in s.docs : x.coll = name}}

removeCollection(s, name) ==
  IF name \notin s.collections
  THEN [db |-> s, result |-> "not_found"]
  ELSE [db |-> [DeleteDocs(s, CascadeDocs(s, name))
                  EXCEPT !.collections = @ \ {name}],
        result |-> "removed"]

AddCollection(name) ==
  LET r == addCollection(db, name) IN
  /\ Quiet
  /\ db' = r.db
  /\ ev' = [op |-> "add", name |-> name, result |-> r.result]
  /\ UNCHANGED <<disk, synced, em>>

RemoveCollection(name) ==
  LET r == removeCollection(db, name) IN
  /\ Quiet
  /\ db' = r.db
  /\ synced' = [synced EXCEPT ![name] = FALSE]
  /\ ev' = [op |-> "remove", name |-> name, result |-> r.result,
            docs |-> Cardinality({d \in db.docs : d.coll = name})]
  /\ UNCHANGED <<disk, em>>

\* ------------------------------------------------------------ a reindex pass
\* The files of vanished (at most one here) are deleted from disk after
\* discoverFiles listed them and before indexFile reaches them (indexer.js 38-41).
ReadAt(d, vanished) == [p \in Paths |-> IF p \in vanished THEN "absent" ELSE d[p]]

\* The binary files of the collection that have a document: the files at
\* which the DELETE of indexer.js 53-55 runs.
BinaryWithDoc(s, d, name) ==
  {p \in Paths : d[p] = "bin" /\ Existing(s, name, p) # {}}

\* What indexFile meets at each path: the DELETE throws at the files of refused.
Meets(d, refused) == [p \in Paths |-> IF p \in refused THEN BinRefused ELSE d[p]]

IdsFit(s) == s.nextDoc <= MaxDocId + 1 /\ s.nextChunk <= MaxChunkId + 1

PassEv(name, full, files, vanished, acc, ok) ==
  [op |-> "index", ok |-> ok, coll |-> name, full |-> full, files |-> files,
   indexed |-> acc.indexed, skipped |-> acc.skipped, removed |-> acc.removed,
   chunks |-> acc.chunks, same |-> acc.same,
   wasSynced |-> synced[name], edited |-> vanished # {}]

\* indexCollections({collectionName: name, full}) when the pass completes:
\* the transaction commits and the counts are reported (indexer.js 161-170).
\* refused holds the binary files at which the DELETE of the prior document
\* throws (at most one file vanishes or is refused in a pass).
IndexPass(name, full, vanished, refused) ==
  /\ Quiet
  /\ name \in db.collections
  /\ LET files == discoverFiles(disk, name)
         read == Meets(ReadAt(disk, vanished), refused)
         acc == FileLoop(db, name, files, read, full, Len(files))
     IN /\ vanished \subseteq FileSet(files)
        /\ Cardinality(vanished) <= 1
        /\ refused \subseteq FileSet(files) \cap BinaryWithDoc(db, ReadAt(disk, vanished), name)
        /\ Cardinality(vanished \cup refused) <= 1
        /\ IdsFit(acc.db)
        /\ db' = Commit(db, acc.db)
        /\ disk' = ReadAt(disk, vanished)
        /\ synced' = IF vanished = {} /\ refused = {}
                     THEN [synced EXCEPT ![name] = TRUE]
                     ELSE [n \in Names |-> FALSE]
        /\ ev' = PassEv(name, full, files, vanished, acc, TRUE)
  /\ UNCHANGED em

\* The pass fails after the removal loop and k files (a crash, a full disk, a
\* statement that throws): the exception leaves tx() and nothing is reported.
IndexPassFails(name, full, k) ==
  /\ Quiet
  /\ name \in db.collections
  /\ LET files == discoverFiles(disk, name)
         acc == FileLoop(db, name, files, disk, full, k)
     IN /\ k <= Len(files)
        /\ IdsFit(acc.db)
        /\ db' = Rollback(db, acc.db)
        /\ UNCHANGED <<disk, synced>>
        /\ ev' = [op |-> "index", ok |-> FALSE, coll |-> name,
                  error |-> "failed", wrote |-> acc.db # db]
  /\ UNCHANGED em

\* getCollections finds nothing: { error: 'No collections found' }
IndexNoCollection(name) ==
  /\ Quiet
  /\ name \notin db.collections
  /\ ev' = [op |-> "index", ok |-> FALSE, coll |-> name, error |-> "no_collections"]
  /\ UNCHANGED <<db, disk, synced, em>>

\* ------------------------------------------------------------ the embed pass
HasEmbedding(s, chunkId) == \E e \in s.embeddings : e.chunk = chunkId

Unembedded(s) == {c \in s.chunks : ~HasEmbedding(s, c.id)}

\* Mutant: the WHERE e.chunk_id IS NULL is missing.
getUnembbeddedChunks_NoFilter(s, limit) ==
  {c \in s.chunks : Cardinality({x \in s.chunks : x.id < c.id}) < limit}

\* getUnembbeddedChunks(limit): the chunks with no embeddings row, LIMIT limit.
\* chunks is the outer table of the LEFT JOIN and SQLite scans it in rowid
\* order, so the first limit of them by id come back.
getUnembbeddedChunks(s, limit) ==
  {c \in Unembedded(s) : Cardinality({x \in Unembedded(s) : x.id < c.id}) < limit}

\* Mutant: the store rejects every write of embeddings.
storeEmbeddings_Rejects(s, batch) == [db |-> s, ok |-> FALSE]

\* Mutant: plain INSERTs into a table without keys.
storeEmbeddings_Unchecked(s, batch) ==
  [db |-> [s EXCEPT !.embeddings =
             @ \cup {[chunk |-> c.id, vec |-> EmbedText(c.text)] : c \in batch}],
   ok |-> TRUE]

\* Mutant: the rows whose chunk is gone are left out, the others are stored.
storeEmbeddings_SkipsGone(s, batch) ==
  [db |-> [s EXCEPT !.embeddings =
             {e \in @ : e.chunk \notin {c.id : c \in batch}}
             \cup {[chunk |-> c.id, vec |-> EmbedText(c.text)] :
                     c \in {x \in batch : x.id \in {y.id : y \in s.chunks}}}],
   ok |-> TRUE]

\* storeEmbeddings: INSERT OR REPLACE one row per chunk, in one transaction.
\* A row whose chunk is gone violates the foreign key: the statement throws
\* and the transaction rolls back.
storeEmbeddings(s, batch) ==
  IF \E c \in batch : c.id \notin {x.id : x \in s.chunks}
  THEN [db |-> s, ok |-> FALSE]
  ELSE [db |-> [s EXCEPT !.embeddings =
                  {e \in @ : e.chunk \notin {c.id : c \in batch}}
                  \cup {[chunk |-> c.id, vec |-> EmbedText(c.text)] : c \in batch}],
        ok |-> TRUE]

\* The top of the loop, cli.js 121-130: select a batch; none left ends the
\* pass, otherwise the texts go to the provider and the command awaits.
\* n counts the pass's batches.
EmbedLoop(size, batch, n, step) ==
  IF batch = {}
  THEN /\ em' = EmIdle
       /\ ev' = [op |-> "embed", step |-> step, exit |-> "complete", n |-> n - 1]
  ELSE /\ em' = [pc |-> "await", size |-> size, batch |-> batch, n |-> n]
       /\ ev' = [op |-> "embed", step |-> step, exit |-> "none", n |-> n]

\* ddsearch embed --batch-size size
EmbedStart(size) ==
  /\ Quiet
  /\ em.pc = "idle"
  /\ EmbedLoop(size, getUnembbeddedChunks(db, size), 1, "start")
  /\ UNCHANGED <<db, disk, synced>>

\* generateEmbeddings returns one vector per text: the batch is stored
\* (cli.js 132-139) and the loop selects the next batch.
EmbedStored ==
  /\ Quiet
  /\ em.pc = "await"
  /\ LET r == storeEmbeddings(db, em.batch) IN
     /\ db' = r.db
     /\ IF r.ok
        THEN EmbedLoop(em.size, getUnembbeddedChunks(r.db, em.size), em.n + 1, "stored")
        ELSE /\ em' = EmIdle
             /\ ev' = [op |-> "embed", step |-> "store_failed", exit |-> "error",
                       n |-> em.n]
  /\ UNCHANGED <<disk, synced>>

\* generateEmbeddings throws (no credential, a provider or network error):
\* the catch of cli.js 145-148 prints it and exits.
EmbedProviderFails ==
  /\ Quiet
  /\ em.pc = "await"
  /\ em' = EmIdle
  /\ ev' = [op |-> "embed", step |-> "provider_failed", exit |-> "error",
            n |-> em.n]
  /\ UNCHANGED <<db, disk, synced>>

\* The report of the last command is read.  Commands are separate runs of the
\* CLI and no action reads ev, so taking the report before the next step
\* leaves out no behaviour of the store.
Return ==
  /\ ~Quiet
  /\ ev' = None
  /\ UNCHANGED <<db, disk, synced, em>>

Next ==
  \/ Quiet /\ \E p \in Paths, st \in FileStates : DiskEdit(p, st)
  \/ Quiet /\ \E n \in Names : AddCollection(n)
  \/ Quiet /\ \E n \in Names : RemoveCollection(n)
  \/ Quiet /\ \E n \in Names, full \in BOOLEAN, v \in SUBSET Paths :
                \E r \in SUBSET BinaryWithDoc(db, ReadAt(disk, v), n) :
                  IndexPass(n, full, v, r)
  \/ Quiet /\ \E n \in Names, full \in BOOLEAN, k \in 0..Len(PathSeq) :
                IndexPassFails(n, full, k)
  \/ Quiet /\ \E n \in Names : IndexNoCollection(n)
  \/ Quiet /\ \E size \in 1..MaxBatch : EmbedStart(size)
  \/ EmbedStored
  \/ EmbedProviderFails
  \/ Return

Spec == Init /\ [][Next]_vars

\* ======================================================================
\* An embedding pass with a provider that answers every request and no writer
\* beside it: while the pass waits for the provider no other command touches
\* the store (files may still change on disk), and the provider's answer
\* arrives (weak fairness of EmbedStored; the command's await resumes when the
\* fetch resolves).
NoPass == em.pc = "idle"

NextAlone ==
  \/ \E p \in Paths, st \in FileStates : DiskEdit(p, st)
  \/ NoPass /\ \E n \in Names : AddCollection(n)
  \/ NoPass /\ \E n \in Names : RemoveCollection(n)
  \/ NoPass /\ \E n \in Names, full \in BOOLEAN : IndexPass(n, full, {}, {})
  \/ \E size \in 1..MaxBatch : EmbedStart(size)
  \/ EmbedStored
  \/ Return

SpecAlone ==
  Init /\ [][NextAlone]_vars /\ WF_vars(EmbedStored) /\ WF_vars(Return)

\* ======================================================================
\* search.js: searchVector.  A search reads the store and writes nothing; its
\* report is ev.

\* search.js 6-9: clampLimit(limit, max = 100) on a finite number
MaxLimit == 100
Min(a, b) == IF a < b THEN a ELSE b
Max(a, b) == IF a > b THEN a ELSE b
clampLimit(limit) == Max(1, Min(MaxLimit, limit))

\* search.js 90: options.limit ?? 10
DefaultLimit == 10

RECURSIVE Dot(_, _, _)
Dot(a, b, i) == IF i = 0 THEN 0 ELSE Dot(a, b, i - 1) + a[i] * b[i]

\* Math.sqrt in the model's fixed point: the largest r with r * r <= n.
RECURSIVE SqrtFrom(_, _)
SqrtFrom(n, r) == IF (r + 1) * (r + 1) > n THEN r ELSE SqrtFrom(n, r + 1)
ISqrt(n) == SqrtFrom(n, 0)

\* utils.js 35-55: cosineSimilarity(a, b) for Len(a) = Len(b), in units of
\* 1/Scale.  The length test of lines 36-38 is SameLength.
SameLength(a, b) == Len(a) = Len(b)
cosineSimilarity(a, b) ==
  LET dotProduct == Dot(a, b, Len(a))
      normA == Dot(a, a, Len(a))
      normB == Dot(b, b, Len(b))
  IN IF normA = 0 \/ normB = 0
     THEN 0
     ELSE (dotProduct * Scale * Scale) \div ISqrt(normA * normB * Scale * Scale)

\* search.js 132: Math.max(0, Math.min(1, (similarity + 1) / 2)), in units of
\* 1/(2 * Scale).
Normalized(similarity) == Max(0, Min(2 * Scale, similarity + Scale))

\* The rows of embeddings JOIN chunks JOIN file_metadata JOIN collections,
\* WHERE col.name = ? when a collection is named (search.js 93-98, 106-126).
NoFilter == "*"
MatchingRows(s, collectionName) ==
  {e \in s.embeddings :
     \E c \in s.chunks : \E d \in s.docs :
       /\ c.id = e.chunk /\ d.id = c.doc /\ d.coll \in s.collections
       /\ (collectionName = NoFilter \/ d.coll = collectionName)}

\* Mutant: the early return of line 100 is missing.
NoEmbeddings_Never(s, collectionName) == FALSE

\* search.js 99-100: if (count === 0) return []
NoEmbeddings(s, collectionName) == Cardinality(MatchingRows(s, collectionName)) = 0

\* Mutant: the minimum is not searched for, the first member is taken.
MinIndex_First(top) == 1

\* search.js 150-153: the first index that holds the least score
MinIndex(top) ==
  CHOOSE i \in 1..Len(top) :
    /\ \A j \in 1..Len(top) : top[j].score >= top[i].score
    /\ \A j \in 1..(i - 1) : top[j].score > top[i].score

\* search.js 134-157: one candidate of the scan
Admit(top, entry, limit) ==
  IF Len(top) < limit
  THEN Append(top, entry)
  ELSE IF entry.score > top[MinIndex(top)].score
       THEN [top EXCEPT ![MinIndex(top)] = entry]
       ELSE top

\* search.js 128-158: the scan over the rows in the order the store yields them
RECURSIVE Scan(_, _, _, _)
Scan(rows, queryEmbedding, limit, i) ==
  IF i = 0
  THEN <<>>
  ELSE Admit(Scan(rows, queryEmbedding, limit, i - 1),
             [chunkId |-> rows[i].chunk,
              score |-> Normalized(cosineSimilarity(queryEmbedding, rows[i].vec))],
             limit)

\* search.js 160: top.sort((a, b) => b.score - a.score), a stable sort
SortInsert(sorted, e) ==
  LET n == Cardinality({i \in 1..Len(sorted) : sorted[i].score >= e.score})
  IN SubSeq(sorted, 1, n) \o <<e>> \o SubSeq(sorted, n + 1, Len(sorted))
RECURSIVE SortDesc(_)
SortDesc(top) ==
  IF top = <<>>
  THEN <<>>
  ELSE SortInsert(SortDesc(SubSeq(top, 1, Len(top) - 1)), top[Len(top)])

\* The orders in which the store may yield a set of rows.
RECURSIVE Orders(_)
Orders(S) ==
  IF S = {} THEN {<<>>} ELSE UNION {{Append(o, x) : o \in Orders(S \ {x})} : x \in S}

\* What generateQueryEmbedding gives: a vector, or a throw (embeddings.js
\* 12-30 no key found, 51-84 the request fails).
QueryVecs == {<<1, 0>>, <<1, 1>>}
Replies ==
  {[error |-> "none", vec |-> v] : v \in QueryVecs}
    \cup {[error |-> e, vec |-> <<>>] : e \in {"no_credential", "provider_error"}}

SearchEv(given, limit, collectionName, ok, error, client, q, results) ==
  [op |-> "search", given |-> given, limit |-> limit, filter |-> collectionName,
   ok |-> ok, error |-> error, client |-> client, q |-> q, results |-> results]

\* search.js 88-162: what searchVector(query, {limit, collectionName}) gives on
\* store s, the client replying reply and the store yielding rows.
vectorOutcome(s, given, limit, collectionName, reply, rows) ==
  LET k == clampLimit(IF given THEN limit ELSE DefaultLimit)
  IN IF NoEmbeddings(s, collectionName)
     THEN SearchEv(given, limit, collectionName, TRUE, "none", 0, <<>>, <<>>)
     ELSE IF reply.error # "none"
     THEN SearchEv(given, limit, collectionName, FALSE, reply.error, 1, <<>>, <<>>)
     ELSE IF \E i \in 1..Len(rows) : ~SameLength(reply.vec, rows[i].vec)
     THEN SearchEv(given, limit, collectionName, FALSE, "length_mismatch", 1,
                   reply.vec, <<>>)
     ELSE SearchEv(given, limit, collectionName, TRUE, "none", 1, reply.vec,
                   SortDesc(Scan(rows, reply.vec, k, Len(rows))))

\* searchVector called as a search of its own (search.js 236-238)
searchVector(given, limit, collectionName, reply, rows) ==
  /\ Quiet
  /\ ev' = vectorOutcome(db, given, limit, collectionName, reply, rows)
  /\ UNCHANGED <<db, disk, synced, em>>

\* The stores a search is run against: two collections of one document each,
\* SearchChunks chunks whose ids grow with their document's (the first document
\* is never empty), and for each chunk no embedding or one of StoredVecs
\* (<<1>> is a vector of another model's length).
StoredVecs == {<<1, 0>>, <<1, 1>>, <<-1, 0>>, <<1>>}
SearchDocs ==
  {[id |-> 1, coll |-> "A", path |-> "p1", hash |-> hashContent("t1")],
   [id |-> 2, coll |-> "B", path |-> "p1", hash |-> hashContent("t1")]}
StoresOf(n, stored) ==
  {[collections |-> Names, docs |-> SearchDocs,
    chunks |-> {[id |-> c, doc |-> owner[c],
                 idx |-> Cardinality({x \in 1..(c - 1) : owner[x] = owner[c]}),
                 text |-> <<"t1", c>>] : c \in 1..n},
    embeddings |-> {[chunk |-> c, vec |-> vecs[c]] : c \in embedded},
    nextDoc |-> 3, nextChunk |-> n + 1] :
     owner \in {f \in [1..n -> {1, 2}] :
                 f[1] = 1 /\ \A i \in 1..(n - 1) : f[i] <= f[i + 1]},
     vecs \in [1..n -> stored],
     embedded \in SUBSET (1..n)}
SearchStores == StoresOf(SearchChunks, StoredVecs)

InitSearch ==
  /\ db \in SearchStores
  /\ disk = [p \in Paths |-> IF p = "p1" THEN "t1" ELSE "absent"]
  /\ synced = [n \in Names |-> FALSE]
  /\ em = EmIdle
  /\ ev = None

Limits == {0, 1, 2, MaxLimit, MaxLimit + 1}

NextSearch ==
  \/ /\ Quiet
     /\ \E coll \in Names \cup {NoFilter} :
          \E rows \in Orders(MatchingRows(db, coll)) :
            \E given \in BOOLEAN, reply \in Replies :
              \E limit \in (IF given THEN Limits ELSE {DefaultLimit}) :
                searchVector(given, limit, coll, reply, rows)
  \/ Return

SpecSearch == InitSearch /\ [][NextSearch]_vars
\* ======================================================================
\* search.js: searchBM25 and searchHybrid.  Scores are fixed-point numbers in
\* units of 1/One; weights are in tenths.
One == 2 * Scale

\* The chunks a lexical query can match: those joined to a document of a
\* collection, of the named collection when one is named (search.js 43-55).
LexicalChunks(s, collectionName) ==
  {c.id : c \in {x \in s.chunks :
     \E d \in s.docs :
       /\ d.id = x.doc /\ d.coll \in s.collections
       /\ (collectionName = NoFilter \/ d.coll = collectionName)}}

\* bm25(chunks_fts) of a match: never positive, smaller is better.  A chunk
\* matches a query weakly, strongly or not at all.
Levels == {"none", "low", "high"}
RawOf(level) == IF level = "high" THEN 0 - (3 * Scale) ELSE 0 - Scale

\* ORDER BY bm25(chunks_fts): best first, equal scores in rowid order (the
\* order of the FTS scan, which SQLite's sorter keeps).
Before(a, b) == a.raw < b.raw \/ (a.raw = b.raw /\ a.id < b.id)
FtsOrder(S) ==
  [i \in 1..Cardinality(S) |->
     CHOOSE x \in S : Cardinality({y \in S : Before(y, x)}) = i - 1]

\* What chunks_fts MATCH ? ORDER BY bm25(chunks_fts) can give for some query
\* over the chunks ids.  The empty sequence is also what an empty query gives
\* (search.js 30-31).
FtsMatches(ids) ==
  {FtsOrder({[id |-> c, raw |-> RawOf(m[c])] : c \in {x \in ids : m[x] # "none"}}) :
     m \in [ids -> Levels]}

Abs(x) == IF x < 0 THEN 0 - x ELSE x

RECURSIVE MaxAbs(_, _)
MaxAbs(h, i) == IF i = 0 THEN One ELSE Max(Abs(h[i].raw), MaxAbs(h, i - 1))

\* search.js 26-83: searchBM25(query, {limit, collectionName}); hits is what
\* the MATCH gives before LIMIT.
searchBM25(hits, limit) ==
  LET results == SubSeq(hits, 1, Min(clampLimit(limit), Len(hits)))
      maxScore == MaxAbs(results, Len(results))
  IN [i \in 1..Len(results) |->
        [chunkId |-> results[i].id,
         score |-> (Abs(results[i].raw) * One) \div maxScore]]

\* search.js 168-173: the defaults of bm25Weight and vectorWeight, in tenths
DefaultBm25Weight == 4
DefaultVectorWeight == 6

\* search.js 176, 180: limit * 3
LegLimit(limit) == limit * 3

SeqIds(r) == {r[i].chunkId : i \in 1..Len(r)}

\* Mutant: a chunk of both legs keeps a vector score of 0.
VectorScoreOf_Zero(vectorResults, chunkId) == 0

\* search.js 198-201: the vector score of a chunk the vector leg returned
VectorScoreOf(vectorResults, chunkId) ==
  LET i == CHOOSE j \in 1..Len(vectorResults) : vectorResults[j].chunkId = chunkId
  IN vectorResults[i].score

\* search.js 185-208: the score map, in insertion order: the lexical results,
\* then the vector results the lexical leg did not return.
ScoreMap(bm25Results, vectorResults) ==
  [i \in 1..Len(bm25Results) |->
     [chunkId |-> bm25Results[i].chunkId,
      bm25Score |-> bm25Results[i].score,
      vectorScore |-> IF bm25Results[i].chunkId \in SeqIds(vectorResults)
                      THEN VectorScoreOf(vectorResults, bm25Results[i].chunkId)
                      ELSE 0]]
  \o
  LET only == SelectSeq(vectorResults, LAMBDA v : v.chunkId \notin SeqIds(bm25Results))
  IN [i \in 1..Len(only) |->
        [chunkId |-> only[i].chunkId, bm25Score |-> 0, vectorScore |-> only[i].score]]

\* search.js 211-215: the combined score, in units of 1/(10 * One)
Combined(entry, bm25Weight, vectorWeight) ==
  [chunkId |-> entry.chunkId, bm25Score |-> entry.bm25Score,
   vectorScore |-> entry.vectorScore,
   score |-> entry.bm25Score * bm25Weight + entry.vectorScore * vectorWeight]

\* Mutant: an error of the vector leg leaves searchHybrid.
VectorLeg_Throws(v) == IF v.ok THEN v.results ELSE <<[chunkId |-> 0, score |-> 0]>>

\* search.js 178-183: the vector leg's results, none when it throws
VectorLeg(v) == IF v.ok THEN v.results ELSE <<>>

\* search.js 167-221: searchHybrid(query, {limit, collectionName, bm25Weight,
\* vectorWeight}); hits is what the MATCH of the query gives.
searchHybrid(given, limit, collectionName, weights, hits, reply, rows) ==
  LET k == IF given THEN limit ELSE DefaultLimit
      bm25Results == searchBM25(hits, LegLimit(k))
      v == vectorOutcome(db, TRUE, LegLimit(k), collectionName, reply, rows)
      vectorResults == VectorLeg(v)
      scoreMap == ScoreMap(bm25Results, vectorResults)
      combined == [i \in 1..Len(scoreMap) |-> Combined(scoreMap[i], weights[1], weights[2])]
      sorted == SortDesc(combined)
  IN /\ Quiet
     /\ ev' = [op |-> "hybrid", given |-> given, limit |-> limit,
               filter |-> collectionName, weights |-> weights,
               legLimit |-> clampLimit(LegLimit(k)),
               lexical |-> bm25Results, vector |-> vectorResults,
               vectorError |-> v.error,
               results |-> SubSeq(sorted, 1, Min(clampLimit(k), Len(sorted)))]
     /\ UNCHANGED <<db, disk, synced, em>>

\* The stores and inputs hybrid search is run with.
Weights == {<<DefaultBm25Weight, DefaultVectorWeight>>, <<10, 10>>}
HybridLimits == {1, 34}
HybridReplies == {r \in Replies : r.vec # <<1, 1>>}
HybridVecs == StoredVecs \ {<<1, 1>>}

InitHybrid ==
  /\ db \in StoresOf(HybridChunks, HybridVecs)
  /\ disk = [p \in Paths |-> IF p = "p1" THEN "t1" ELSE "absent"]
  /\ synced = [n \in Names |-> FALSE]
  /\ em = EmIdle
  /\ ev = None

NextHybrid ==
  \/ /\ Quiet
     /\ \E coll \in Names \cup {NoFilter} :
          \E rows \in Orders(MatchingRows(db, coll)) :
            \E hits \in FtsMatches(LexicalChunks(db, coll)) :
              \E given \in BOOLEAN, reply \in HybridReplies, weights \in Weights :
                \E limit \in (IF given THEN HybridLimits ELSE {DefaultLimit}) :
                  searchHybrid(given, limit, coll, weights, hits, reply, rows)
  \/ Return

SpecHybrid == InitHybrid /\ [][NextHybrid]_vars

\* ======================================================================
\* chunker.js: chunkMarkdown.  A document is the sequence of its lines
\* (content.split('\n'), never empty); a line is known by its kind.
Kinds == {"text", "heading", "fence", "blank", "space", "rule"}

\* chunker.js 4-5
TARGET_CHUNK_SIZE == 300
MIN_CHUNK_SIZE == 100

\* utils.js 6-8: estimateTokens(line) = ceil(length / 4).  A text line here is
\* 600 characters long, a space line is 1200 blanks, a blank line is empty.
estimateTokens(kind) ==
  CASE kind = "text" -> 150
    [] kind = "space" -> 300
    [] kind = "blank" -> 0
    [] kind = "heading" -> 2
    [] OTHER -> 1

\* chunker.js 47-50
isHeading(kind) == kind = "heading"
isCodeFence(kind) == kind = "fence"
isHorizontalRule(kind) == kind = "rule"
isBlankLine(kind) == kind \in {"blank", "space"}

\* nextStartLine = null
NoLine == 0

\* chunker.js 13-16.  i is the loop index (from 0); currentChunk holds the
\* numbers (from 1) of the lines pushed.
ChunkerStart ==
  [i |-> 0, currentChunk |-> <<>>, currentTokens |-> 0, chunkStartLine |-> 1,
   chunks |-> <<>>]

\* chunker.js 21-22: the joined text trims to nothing
TrimsToEmpty(lines, currentChunk) ==
  \A n \in 1..Len(currentChunk) : isBlankLine(lines[currentChunk[n]])

\* chunker.js 18-40: flushChunk(nextStartLine)
flushChunk(st, lines, nextStartLine) ==
  IF Len(st.currentChunk) = 0 THEN st
  ELSE IF TrimsToEmpty(lines, st.currentChunk)
  THEN [st EXCEPT !.currentChunk = <<>>, !.currentTokens = 0]
  ELSE LET endLine == st.chunkStartLine + Len(st.currentChunk) - 1
       IN [st EXCEPT
             !.chunks = Append(@, [startLine |-> st.chunkStartLine,
                                   endLine |-> endLine,
                                   members |-> st.currentChunk]),
             !.currentChunk = <<>>, !.currentTokens = 0,
             !.chunkStartLine = IF nextStartLine = NoLine THEN endLine + 1
                                ELSE nextStartLine]

\* chunker.js 58-59, 65-66, 70-71: push the lines numbered a..b
RECURSIVE PushLines(_, _, _, _)
PushLines(st, lines, a, b) ==
  IF a > b THEN st
  ELSE LET before == PushLines(st, lines, a, b - 1)
       IN [before EXCEPT !.currentChunk = Append(@, b),
                         !.currentTokens = @ + estimateTokens(lines[b])]

\* Mutant: the scan for the closing fence stops at once.
FenceEnd_AtOnce(lines, j) == j

\* chunker.js 63-68: the index j (from 0) where the while loop stops, started
\* at j: the next fence line, or lines.length
RECURSIVE FenceEnd(_, _)
FenceEnd(lines, j) ==
  IF j < Len(lines) /\ ~isCodeFence(lines[j + 1]) THEN FenceEnd(lines, j + 1) ELSE j

\* chunker.js 69-73: i = j only when a closing fence was found
FenceResume(lines, i, j) == IF j < Len(lines) THEN j ELSE i

\* chunker.js 62-80: the body of if (isCodeFence), the opening fence pushed
FenceBlock(st, lines) ==
  LET j == FenceEnd(lines, st.i + 1)
      inside == PushLines(st, lines, st.i + 2, j)
      closed == IF j < Len(lines) THEN PushLines(inside, lines, j + 1, j + 1)
                ELSE inside
      at == [closed EXCEPT !.i = FenceResume(lines, st.i, j)]
  IN IF at.currentTokens >= TARGET_CHUNK_SIZE
     THEN flushChunk(at, lines, at.i + 2)
     ELSE at

\* chunker.js 42-88: one iteration of the for loop, i++ included
LoopBody(st, lines) ==
  LET kind == lines[st.i + 1]
      flushed == IF isHeading(kind) /\ Len(st.currentChunk) > 0
                    /\ st.currentTokens >= MIN_CHUNK_SIZE
                 THEN flushChunk(st, lines, st.i + 1)
                 ELSE st
      pushed == PushLines(flushed, lines, st.i + 1, st.i + 1)
      done == IF isCodeFence(kind)
              THEN FenceBlock(pushed, lines)
              ELSE IF pushed.currentTokens >= TARGET_CHUNK_SIZE
                      /\ (isBlankLine(kind) \/ isHorizontalRule(kind)
                          \/ st.i = Len(lines) - 1)
              THEN flushChunk(pushed, lines, st.i + 2)
              ELSE pushed
  IN [done EXCEPT !.i = @ + 1]

RECURSIVE ChunkerLoop(_, _)
ChunkerLoop(st, lines) ==
  IF st.i < Len(lines) THEN ChunkerLoop(LoopBody(st, lines), lines) ELSE st

\* chunker.js 11-94: chunkMarkdown(content)
chunkMarkdown(lines) ==
  flushChunk(ChunkerLoop(ChunkerStart, lines), lines, NoLine).chunks

\* The documents chunked: every sequence of 1..MaxLines lines.
Documents == UNION {[1..n -> Kinds] : n \in 1..MaxLines}

\* The file at p1 holds the document; the other path holds none.
InitChunker ==
  /\ db = EmptyDb
  /\ \E doc \in Documents : disk = [p \in Paths |-> IF p = "p1" THEN doc ELSE <<>>]
  /\ synced = [n \in Names |-> FALSE]
  /\ em = EmIdle
  /\ ev = None

ChunkDocument ==
  /\ Quiet
  /\ ev' = [op |-> "chunk", lines |-> disk["p1"], chunks |-> chunkMarkdown(disk["p1"])]
  /\ UNCHANGED <<db, disk, synced, em>>

NextChunker ==
  \/ ChunkDocument
  \/ Return

SpecChunker == InitChunker /\ [][NextChunker]_vars

\* ======================================================================
\* Properties of a reindex pass.  ev is the pass's report; in a step that
\* takes the pass, db is the store before it and db' the store after it.
PassDone == ev.op = "index" /\ ev.ok
PassDoneNext == ev'.op = "index" /\ ev'.ok

\* What the store holds for one path of a collection.
DocData(s, coll, path) ==
  LET ds == Existing(s, coll, path)
      cs == {c \in s.chunks : c.doc \in {d.id : d \in ds}}
  IN [docs |-> ds, chunks |-> cs,
      embeddings |-> {e \in s.embeddings : e.chunk \in {c.id : c \in cs}}]

\* C1: a pass with force-full off over a collection whose files have not
\* changed since its previous committed pass discovered them reports
\* indexed = 0, skipped = the number of matched files, removed = 0.
C1_RerunUnchanged ==
  (PassDone /\ ~ev.full /\ ev.wasSynced /\ ~ev.edited)
    => /\ ev.indexed = 0
       /\ ev.skipped = Len(ev.files)
       /\ ev.removed = 0

C1_Witness ==
  /\ PassDone /\ ~ev.full /\ ev.wasSynced /\ ~ev.edited
  /\ Len(ev.files) = 2
  /\ \E d \in db.docs : d.coll = ev.coll

\* C2: a pass with force-full off leaves the document, the chunks (ids
\* included) and the embeddings of every matched file whose fingerprint equals
\* the recorded one as they were, whatever it does to the other files.
C2_UnchangedFilesKept ==
  [][(PassDoneNext /\ ~ev'.full)
       => \A p \in ev'.same : DocData(db', ev'.coll, p) = DocData(db, ev'.coll, p)]_vars

C2_Witness ==
  /\ PassDone /\ ~ev.full /\ ev.indexed >= 1
  /\ \E p \in ev.same : DocData(db, ev.coll, p).embeddings # {}

\* C3: a pass deletes every previously indexed document of the collection
\* whose path is no longer matched, with its chunks and their embeddings, and
\* removed is the number of those documents.
C3_RemovedDocuments ==
  [][PassDoneNext
       => LET gone == {d \in db.docs : d.coll = ev'.coll
                                        /\ d.path \notin FileSet(ev'.files)}
              goneChunks == {c.id : c \in {x \in db.chunks : x.doc \in {d.id : d \in gone}}}
          IN /\ ev'.removed = Cardinality(gone)
             /\ \A d \in gone : Existing(db', d.coll, d.path) = {}
             /\ \A c \in db'.chunks : c.id \notin goneChunks
             /\ \A e \in db'.embeddings : e.chunk \notin goneChunks]_vars

C3_Witness == PassDone /\ ev.removed = 1 /\ ev.indexed = 0 /\ ev.skipped = 0

C5_SkippedCountsUnchanged ==
  PassDone => ev.skipped = (IF ev.full THEN 0 ELSE Cardinality(ev.same))

\* C6: removing a collection deletes every document, chunk and embedding it
\* owns and leaves those of every other collection as they were; removing a
\* name that does not exist fails with not-found and changes nothing.
C6_RemoveCollection ==
  [][ev'.op = "remove"
       => IF ev'.name \in db.collections
          THEN LET keptDocs == {d \in db.docs : d.coll # ev'.name}
                   keptChunks == {c \in db.chunks : c.doc \in {d.id : d \in keptDocs}}
               IN /\ ev'.result = "removed"
                  /\ db'.collections = db.collections \ {ev'.name}
                  /\ db'.docs = keptDocs
                  /\ db'.chunks = keptChunks
                  /\ db'.embeddings =
                       {e \in db.embeddings : e.chunk \in {c.id : c \in keptChunks}}
          ELSE ev'.result = "not_found" /\ db' = db]_vars

C6_Witness ==
  /\ ev.op = "remove" /\ ev.result = "removed" /\ ev.docs >= 1
  /\ db.embeddings # {}

\* C7: an embedding pass whose every request the provider answers with one
\* vector per text, run while nothing else writes the store, terminates, and
\* at its termination no chunk of the store lacks an embedding.
C7_EmbedPassCompletes ==
  (em.pc = "await")
    ~> (em.pc = "idle" /\ ev.op = "embed" /\ ev.exit = "complete"
        /\ Unembedded(db) = {})

C7_Witness ==
  /\ ev.op = "embed" /\ ev.exit = "complete" /\ ev.n >= 2
  /\ Cardinality(db.chunks) >= 2 /\ Unembedded(db) = {}

\* C8: when the provider fails during a batch the pass ends there, the store
\* keeps every embedding it holds, and no request of a pass, a re-run
\* included, carries a chunk that has an embedding.
C8_ProviderFailure ==
  [][/\ (ev'.op = "embed" /\ ev'.step = "provider_failed")
          => (db' = db /\ em'.pc = "idle")
     /\ (em'.pc = "await" /\ em' # em)
          => \A c \in em'.batch : ~HasEmbedding(db', c.id)]_vars

C8_Witness ==
  /\ ev.op = "embed" /\ ev.step = "provider_failed" /\ ev.n >= 2
  /\ db.embeddings # {} /\ Unembedded(db) # {}
\* ======================================================================
\* Properties of vector search.  ev is the search's report.

\* The candidates of a search that computed scores: the matching rows, each
\* with its normalized score against the query vector.
Candidates ==
  {[chunkId |-> e.chunk, score |-> Normalized(cosineSimilarity(ev.q, e.vec))] :
     e \in MatchingRows(db, ev.filter)}

\* C9: a vector search with a limit k in 1..100 that returns, over n matching
\* embeddings scanned in any order, returns exactly min(k, n) of the
\* candidates, each once, in non-increasing order of score, and no candidate
\* left out scores more than one returned.
C9_TopK ==
  (ev.op = "search" /\ ev.ok /\ ev.client = 1 /\ ev.given /\ ev.limit \in 1..MaxLimit)
    => LET r == ev.results
       IN /\ Len(r) = Min(ev.limit, Cardinality(Candidates))
          /\ \A i \in 1..Len(r) : r[i] \in Candidates
          /\ \A i, j \in 1..Len(r) : r[i] = r[j] => i = j
          /\ \A i, j \in 1..Len(r) : i < j => r[i].score >= r[j].score
          /\ \A c \in Candidates :
               (\A i \in 1..Len(r) : r[i] # c)
                 => \A i \in 1..Len(r) : r[i].score >= c.score

C9_Witness ==
  /\ ev.op = "search" /\ ev.ok /\ ev.client = 1 /\ ev.given /\ ev.limit = 2
  /\ Cardinality(Candidates) = 3
  /\ Len(ev.results) = 2
  /\ ev.results[1].score > ev.results[2].score
  /\ \E c \in Candidates : c.score < ev.results[2].score /\ c.chunkId = SearchChunks

\* C10: a vector search over a store with no embedding matching the filter
\* returns the empty result, without an error and without calling the
\* embedding client, whether a credential is configured or not (the client's
\* reply, had it been called, is any of Replies).
C10_NoEmbeddingsNoCall ==
  (ev.op = "search" /\ MatchingRows(db, ev.filter) = {})
    => (ev.ok /\ ev.results = <<>> /\ ev.client = 0)

C10_Witness ==
  /\ ev.op = "search" /\ ev.filter = "A"
  /\ MatchingRows(db, "A") = {} /\ MatchingRows(db, "B") # {}
  /\ ev.results = <<>>

\* The matching rows whose stored vector has the query vector's length.
Comparable == {e \in MatchingRows(db, ev.filter) : SameLength(ev.q, e.vec)}

\* C11: a vector search whose client gave a query vector, over matching rows of
\* which exactly one has a vector of another length and the others do not,
\* does not fail: it returns results over the remaining rows, min(k, their
\* number) of them.
C11_StrayEmbeddingIsolated ==
  (/\ ev.op = "search" /\ ev.client = 1
   /\ ev.error \notin {"no_credential", "provider_error"}
   /\ Cardinality(MatchingRows(db, ev.filter) \ Comparable) = 1
   /\ Comparable # {})
    => /\ ev.ok
       /\ Len(ev.results)
            = Min(clampLimit(IF ev.given THEN ev.limit ELSE DefaultLimit),
                  Cardinality(Comparable))
       /\ \A i \in 1..Len(ev.results) :
            ev.results[i].chunkId \in {e.chunk : e \in Comparable}

\* ======================================================================
\* Properties of a hybrid search.  ev is its report: the weights it was given,
\* what each leg returned, and the fused list.

\* The score a leg gave a chunk, 0 when the leg did not return it.
LegScore(leg, chunkId) ==
  IF \E i \in 1..Len(leg) : leg[i].chunkId = chunkId
  THEN leg[CHOOSE i \in 1..Len(leg) : leg[i].chunkId = chunkId].score
  ELSE 0

\* C12: every result of a hybrid search scores lexicalWeight * its lexical
\* score + vectorWeight * its vector score, a leg that did not return the
\* chunk counting 0, and no chunk id is in the results twice.
C12_HybridFusion ==
  ev.op = "hybrid" =>
    /\ \A i \in 1..Len(ev.results) :
         ev.results[i].score
           = LegScore(ev.lexical, ev.results[i].chunkId) * ev.weights[1]
             + LegScore(ev.vector, ev.results[i].chunkId) * ev.weights[2]
    /\ \A i, j \in 1..Len(ev.results) :
         ev.results[i].chunkId = ev.results[j].chunkId => i = j

\* A hybrid search returned a chunk of both legs, with a positive score in
\* each, and a chunk the lexical leg did not return.
C12_Witness ==
  /\ ev.op = "hybrid"
  /\ \E i, j \in 1..Len(ev.results) :
       /\ LegScore(ev.lexical, ev.results[i].chunkId) > 0
       /\ LegScore(ev.vector, ev.results[i].chunkId) > 0
       /\ ev.results[j].chunkId \in SeqIds(ev.vector) \ SeqIds(ev.lexical)

\* C13: when the vector leg of a hybrid search throws (no credential, the
\* provider fails, a stored vector of another length), the search returns the
\* lexical results, in the lexical order, each scoring lexicalWeight * its
\* lexical score with a vector score of 0.
C13_VectorLegFails ==
  (ev.op = "hybrid" /\ ev.vectorError # "none") =>
    LET n == Min(clampLimit(IF ev.given THEN ev.limit ELSE DefaultLimit),
                 Len(ev.lexical))
    IN /\ Len(ev.results) = n
       /\ \A i \in 1..n :
            /\ ev.results[i].chunkId = ev.lexical[i].chunkId
            /\ ev.results[i].score = ev.weights[1] * ev.lexical[i].score
            /\ ev.results[i].vectorScore = 0

\* A hybrid search whose vector leg met a stored vector of another length
\* returned two lexical results of different scores.
C13_Witness ==
  /\ ev.op = "hybrid" /\ ev.vectorError = "length_mismatch"
  /\ Len(ev.results) = 2
  /\ ev.results[1].score > ev.results[2].score
  /\ ev.results[2].score > 0

\* The scores of a result list lie between 0 and top.
ScoresWithin(results, top) ==
  \A i \in 1..Len(results) : results[i].score >= 0 /\ results[i].score <= top

\* C14: in a hybrid search with non-negative weights, every result of the
\* lexical leg, of the vector leg and of the fused list has a score in
\* [0, 1] (One for a leg, 10 * One for the fused list, whose weights are in
\* tenths).
C14_ScoresNormalized ==
  (ev.op = "hybrid" /\ ev.weights[1] >= 0 /\ ev.weights[2] >= 0) =>
    /\ ScoresWithin(ev.lexical, One)
    /\ ScoresWithin(ev.vector, One)
    /\ ScoresWithin(ev.results, 10 * One)

\* ======================================================================
\* Properties of the chunker.  ev holds the document chunked and its chunks.

\* The line ranges of the chunks, in order, partition 1..n.
Partition(chunks, n) ==
  /\ Len(chunks) >= 1
  /\ chunks[1].startLine = 1
  /\ \A c \in 1..(Len(chunks) - 1) : chunks[c + 1].startLine = chunks[c].endLine + 1
  /\ chunks[Len(chunks)].endLine = n

HasKind(lines, kinds) == \E n \in 1..Len(lines) : lines[n] \in kinds

\* C15: the line ranges of the chunks of a document of N lines without code
\* fences, some line of which is not whitespace, partition 1..N in chunk
\* order, runs of whitespace-only lines discarded at a flush included.
C15_RangesPartition ==
  (/\ ev.op = "chunk"
   /\ ~HasKind(ev.lines, {"fence"})
   /\ HasKind(ev.lines, Kinds \ {"blank", "space"}))
    => Partition(ev.chunks, Len(ev.lines))

\* The fenced blocks of a document that are closed: <<a, b>> where line a is
\* an opening fence (an even number of fence lines precede it) and line b is
\* the next fence line.
ClosedBlocks(lines) ==
  {p \in (1..Len(lines)) \X (1..Len(lines)) :
     /\ p[1] < p[2]
     /\ isCodeFence(lines[p[1]]) /\ isCodeFence(lines[p[2]])
     /\ \A n \in (p[1] + 1)..(p[2] - 1) : ~isCodeFence(lines[n])
     /\ Cardinality({n \in 1..(p[1] - 1) : isCodeFence(lines[n])}) % 2 = 0}

\* The lines chunk c of chunks holds.
LinesOf(chunks, c) == {chunks[c].members[n] : n \in 1..Len(chunks[c].members)}

\* C16: a fenced block with a closing fence is never split: one chunk holds
\* the opening fence, every line inside and the closing fence, and no other
\* chunk holds any of them.
C16_ClosedFenceKeptWhole ==
  ev.op = "chunk" =>
    \A p \in ClosedBlocks(ev.lines) :
      \E c \in 1..Len(ev.chunks) :
        /\ (p[1]..p[2]) \subseteq LinesOf(ev.chunks, c)
        /\ \A d \in 1..Len(ev.chunks) :
             d # c => LinesOf(ev.chunks, d) \cap (p[1]..p[2]) = {}

\* A document was chunked whose closed block holds a whitespace-only line of
\* the target size, and a second chunk follows the block's.
C16_Witness ==
  /\ ev.op = "chunk"
  /\ Len(ev.chunks) = 2
  /\ \E p \in ClosedBlocks(ev.lines) :
       /\ \E n \in (p[1] + 1)..(p[2] - 1) : ev.lines[n] = "space"
       /\ (p[1]..p[2]) \subseteq LinesOf(ev.chunks, 1)

\* The opening fences of a document that no fence line closes.
OpenFences(lines) ==
  {a \in 1..Len(lines) :
     /\ isCodeFence(lines[a])
     /\ \A n \in (a + 1)..Len(lines) : ~isCodeFence(lines[n])
     /\ Cardinality({n \in 1..(a - 1) : isCodeFence(lines[n])}) % 2 = 0}

\* C17: in a document without whitespace-only lines whose last fence has no
\* closing fence, the last chunk holds the opening fence and every line after
\* it, ends at the document's last line, and no other chunk holds any of
\* those lines.
C17_OpenFenceToTheEnd ==
  (ev.op = "chunk" /\ ~HasKind(ev.lines, {"blank", "space"})) =>
    \A a \in OpenFences(ev.lines) :
      LET last == Len(ev.chunks)
      IN /\ last >= 1
         /\ (a..Len(ev.lines)) \subseteq LinesOf(ev.chunks, last)
         /\ ev.chunks[last].endLine = Len(ev.lines)
         /\ \A d \in 1..(last - 1) :
              LinesOf(ev.chunks, d) \cap (a..Len(ev.lines)) = {}

\* ======================================================================
\* Properties of the store.  Every state of Spec is a committed one: a pass is
\* one transaction and one step.

\* The chunks the store holds for document d, without their ids.
StoredChunks(s, d) ==
  {[chunkIndex |-> c.idx, text |-> c.text] : c \in {x \in s.chunks : x.doc = d.id}}

\* C18: a path of a collection has at most one document, every chunk belongs
\* to a document, and the chunks of a document are the chunks chunkFile gave
\* for the content it was last indexed with (the content of its recorded
\* hash), with the indices 0..n-1 once each.
C18_ChunksOfLastIndex ==
  /\ \A c \in db.chunks : \E d \in db.docs : d.id = c.doc
  /\ \A d \in db.docs :
       LET cs == chunkFile(d.hash[2])
       IN /\ Cardinality(Existing(db, d.coll, d.path)) = 1
          /\ StoredChunks(db, d) = {cs[i] : i \in 1..Len(cs)}
          /\ \A i \in 0..(Len(cs) - 1) :
               Cardinality({c \in db.chunks : c.doc = d.id /\ c.idx = i}) = 1
          /\ Cardinality({c \in db.chunks : c.doc = d.id}) = Len(cs)

\* A force-full pass over a collection that was in step with its one file
\* re-indexed it: the store holds only the new document's chunks.
C18_Witness ==
  /\ PassDone /\ ev.full /\ ev.wasSynced /\ ~ev.edited
  /\ ev.indexed = 1 /\ ev.removed = 0 /\ Len(ev.files) = 1
  /\ \E d \in db.docs :
       /\ d.coll = ev.coll /\ d.id = 2
       /\ {c.id : c \in db.chunks} = {db.nextChunk - 1}
       /\ db.nextChunk > 2

\* C19: every chunk has at most one embedding and every embedding belongs to
\* a chunk the store holds, whatever collections were added and removed,
\* passes run and embedding batches stored.
C19_EmbeddingsOfChunks ==
  /\ \A e \in db.embeddings : \E c \in db.chunks : c.id = e.chunk
  /\ \A c \in db.chunks :
       Cardinality({e \in db.embeddings : e.chunk = c.id}) <= 1

\* A pass re-indexed a file while an embedding pass that had stored a batch
\* awaits the provider: the chunks of the stored batch and of the awaited one
\* are gone, and no embedding is left.
C19_Witness ==
  /\ PassDone /\ ev.indexed >= 1
  /\ em.pc = "await" /\ em.n >= 2
  /\ \A c \in em.batch : c.id \notin {x.id : x \in db.chunks}
  /\ db.chunks # {}
  /\ db.embeddings = {}

\* C20: a hybrid search with a result limit k in 1..100 has each leg return
\* up to 3k candidates (legLimit is the limit each leg applies) and returns
\* at most k results.
C20_LegsGetThreeK ==
  LET k == IF ev.given THEN ev.limit ELSE DefaultLimit
  IN (ev.op = "hybrid" /\ k \in 1..MaxLimit) =>
       /\ ev.legLimit = 3 * k
       /\ Len(ev.results) <= k

\* C21: after a committed pass, a matched file that the pass read as binary
\* has no document, chunk or embedding in the collection, and the pass counts
\* as indexed no more files than it read as text.
C21_BinaryFileDropped ==
  PassDone =>
    /\ \A p \in FileSet(ev.files) :
         disk[p] = "bin" =>
           DocData(db, ev.coll, p) = [docs |-> {}, chunks |-> {}, embeddings |-> {}]
    /\ ev.indexed <= Cardinality({p \in FileSet(ev.files) : disk[p] \in Texts})

\* C22: after a committed pass during which no matched file vanished, every
\* matched file that holds a text has exactly one document in the collection,
\* with the hash of that text and the chunks chunkFile gives for it, and no
\* path that is unmatched or holds a binary file has a document there.
C22_IndexAgreesWithDisk ==
  (PassDone /\ ~ev.edited) =>
    /\ \A p \in FileSet(ev.files) :
         disk[p] \in Texts =>
           /\ Cardinality(Existing(db, ev.coll, p)) = 1
           /\ \A d \in Existing(db, ev.coll, p) :
                /\ d.hash = hashContent(disk[p])
                /\ StoredChunks(db, d)
                     = {chunkFile(disk[p])[i] : i \in 1..ChunkCount(disk[p])}
    /\ \A p \in Paths :
         (p \notin FileSet(ev.files) \/ disk[p] = "bin")
           => Existing(db, ev.coll, p) = {}

\* The files a committed pass with report r indexed, disk d being what it
\* read: the matched text files, those with the recorded fingerprint left out
\* unless the pass is force-full.
IndexedFiles(r, d) ==
  {p \in FileSet(r.files) : d[p] \in Texts /\ (r.full \/ p \notin r.same)}

\* C23: right after a committed pass, every file it indexed has a document
\* none of whose chunks has an embedding (under force-full: every matched
\* text file, unchanged ones included); and a chunk without an embedding
\* gets one only in a step of the embed command that stores a batch.
C23_FreshChunksUnembedded ==
  [][/\ PassDoneNext =>
          \A p \in IndexedFiles(ev', disk') :
            /\ DocData(db', ev'.coll, p).docs # {}
            /\ DocData(db', ev'.coll, p).chunks # {}
            /\ DocData(db', ev'.coll, p).embeddings = {}
     /\ (\E c \in db.chunks \cap db'.chunks :
           ~HasEmbedding(db, c.id) /\ HasEmbedding(db', c.id))
         => (ev'.op = "embed" /\ ev'.step = "stored")]_vars

\* A force-full pass over a collection in step with its files re-indexed a
\* file that had not changed, while an embed command awaits the provider for
\* the chunks the pass deleted: the new chunks have no embedding.
C23_Witness ==
  /\ PassDone /\ ev.full /\ ev.wasSynced /\ ~ev.edited
  /\ ev.same \cap IndexedFiles(ev, disk) # {}
  /\ em.pc = "await"
  /\ \A c \in em.batch : c.id \notin {x.id : x \in db.chunks}
  /\ Unembedded(db) # {}

\* The chunks of the awaited batch that the store no longer holds.
GoneFromBatch == {c \in em.batch : c.id \notin {x.id : x \in db.chunks}}

\* C24: when the embed command comes to store a batch of which a chunk was
\* deleted since the batch was selected, the store fails and leaves the store
\* as it was, the embeddings of earlier batches included; and after every
\* step each embedding belongs to a chunk the store holds.
C24_DeletedChunkNotEmbedded ==
  [][/\ (/\ em.pc = "await" /\ GoneFromBatch # {}
          /\ ev'.op = "embed" /\ ev'.step \in {"stored", "store_failed"})
         => (ev'.step = "store_failed" /\ db' = db)
     /\ \A e \in db'.embeddings : \E c \in db'.chunks : c.id = e.chunk]_vars

\* The second batch of an embed command failed to store, and the embedding
\* stored by its first batch is in the store.
C24_Witness ==
  /\ ev.op = "embed" /\ ev.step = "store_failed" /\ ev.n >= 2
  /\ db.embeddings # {}
====
